---- MODULE Spec2Model ----
(***************************************************************************)
(* Model of custom_components/vibe_alarm_sys/__init__.py: the trigger      *)
(* cache fed by binary-sensor state changes, the attribution of an alarm   *)
(* trigger to a cached activation, and the push of state, source and panel *)
(* name to the ESPHome devices.                                            *)
(*                                                                         *)
(* Texts that the code transforms (raw states, service names) are          *)
(* sequences of one-character strings; texts that the code only passes on  *)
(* or tests for emptiness (names, device classes) are plain strings, with  *)
(* Absent standing for Python's None.                                      *)
(***************************************************************************)
EXTENDS Integers, Sequences, FiniteSets

VARIABLES
    lookback_cfg,   \* entry.data.get("alarm_trigger_lookback_seconds")
    esphome_devices,\* list(entry.data.get("esphome_devices") or [])
    trigger_cache,  \* the deque(maxlen=300), newest at the end
    accepted,       \* history: how many records were ever appended
    clock,          \* dt_util.utcnow(), in seconds
    alarm_st,       \* hass.states.get(alarm_entity)
    services,       \* hass.services: the registered esphome service names
    tasks,          \* the unfinished tasks created with hass.async_create_task, oldest first
    spawned,        \* history: how many tasks were ever created
    attribution,    \* history: the latest attribution (lines 175-188) and what it read
    calls,          \* history: the hass.services.async_call invocations, in order
    pushes,         \* history: the push_to_all invocations, in order
    last            \* history: the notification the latest step handled (where a
                    \* specification records it); a step of a task handles none

vars == <<lookback_cfg, esphome_devices, trigger_cache, accepted, clock, alarm_st,
          services, tasks, spawned, attribution, calls, pushes, last>>

----------------------------------------------------------------------------
(* Python values *)

Absent == "<None>"

Truthy(text) == text # Absent /\ text # ""

Or(a, b) == IF Truthy(a) THEN a ELSE b

\* a raw .state value: True/False, a str, or None
PyBool(b) == [t |-> "bool", b |-> b, s |-> <<>>]
PyStr(s) == [t |-> "str", b |-> FALSE, s |-> s]
PyNone == [t |-> "none", b |-> FALSE, s |-> <<>>]

UpperChars == <<"A","B","C","D","E","F","G","H","I","J","K","L","M",
                "N","O","P","Q","R","S","T","U","V","W","X","Y","Z">>

LowerChars == <<"a","b","c","d","e","f","g","h","i","j","k","l","m",
                "n","o","p","q","r","s","t","u","v","w","x","y","z">>

LowerChar(c) ==
    IF \E i \in DOMAIN UpperChars : UpperChars[i] = c
    THEN LowerChars[CHOOSE i \in DOMAIN UpperChars : UpperChars[i] = c]
    ELSE c

\* str.lower()
Lower(s) == [i \in DOMAIN s |-> LowerChar(s[i])]

\* str(state) of a value that is neither True nor False
PyToStr(v) == IF v.t = "none" THEN <<"N","o","n","e">> ELSE v.s

\* the function without its lower()
NormalizeWithoutLower(state) ==
    IF state.t = "bool" /\ state.b THEN <<"t","r","u","e">>
    ELSE IF state.t = "bool" /\ ~state.b THEN <<"f","a","l","s","e">>
    ELSE PyToStr(state)

_normalize_boolish(state) ==
    IF state.t = "bool" /\ state.b THEN <<"t","r","u","e">>
    ELSE IF state.t = "bool" /\ ~state.b THEN <<"f","a","l","s","e">>
    ELSE Lower(PyToStr(state))

----------------------------------------------------------------------------
(* Module constants *)

RELEVANT_DEVICE_CLASSES ==
    {"door", "window", "opening", "garage_door", "motion", "occupancy", "presence", "lock"}

ACTIVE_STATES ==
    {<<"o","n">>, <<"o","p","e","n">>, <<"o","p","e","n","e","d">>, <<"t","r","u","e">>}

IgnoredStates ==
    {<<"u","n","k","n","o","w","n">>, <<"u","n","a","v","a","i","l","a","b","l","e">>,
     <<"n","o","n","e">>}

Triggered == <<"t","r","i","g","g","e","r","e","d">>

CacheMaxLen == 300

DefaultLookback == 60

----------------------------------------------------------------------------
(* State objects and events *)

Attrs(dc, fn, src) == [device_class |-> dc, friendly_name |-> fn, source |-> src]

NoAttrs == Attrs(Absent, Absent, Absent)

\* a State of the host, or None (present = FALSE)
StateObj(raw, attrs, name) ==
    [present |-> TRUE, state |-> raw, attributes |-> attrs, name |-> name]

NoState == [present |-> FALSE, state |-> PyNone, attributes |-> NoAttrs, name |-> Absent]

\* event.data of a state-change notification
Event(eid, old, new) == [entity_id |-> eid, old_state |-> old, new_state |-> new]

NoEvent == [kind |-> "none", data |-> Event(Absent, NoState, NoState)]

SensorNotification(event) == [kind |-> "sensor", data |-> event]

AlarmNotification(event) == [kind |-> "alarm", data |-> event]

----------------------------------------------------------------------------
(* The trigger cache *)

\* one cached activation; n is history: the record's ordinal among all accepted
CacheRecord(ts, eid, name, dc, st, n) ==
    [ts |-> ts, entity_id |-> eid, name |-> name, device_class |-> dc, state |-> st, n |-> n]

\* a list in place of the bounded deque
ListAppend(cache, item) == Append(cache, item)

\* an append that stamps the records already held with the time of the new one
DequeAppendRestamped(cache, item) ==
    LET kept == IF Len(cache) >= CacheMaxLen THEN Tail(cache) ELSE cache
    IN  Append([i \in DOMAIN kept |-> [kept[i] EXCEPT !.ts = item.ts]], item)

\* deque(maxlen=...).append: a full deque drops its oldest item
DequeAppend(cache, item) ==
    IF Len(cache) >= CacheMaxLen THEN Append(Tail(cache), item) ELSE Append(cache, item)

\* old_s: None when there is no old state
OldNormalized(event) ==
    IF event.old_state.present THEN PyStr(_normalize_boolish(event.old_state.state))
    ELSE PyNone

NewNormalized(event) == _normalize_boolish(event.new_state.state)

\* the handler without its old_s == new_s test
AcceptsRepeats(event) ==
    /\ Truthy(event.entity_id) /\ event.new_state.present
    /\ NewNormalized(event) \notin IgnoredStates
    /\ event.new_state.attributes.device_class \in RELEVANT_DEVICE_CLASSES
    /\ NewNormalized(event) \in ACTIVE_STATES

\* the handler without its device_class test
AcceptsAnyClass(event) ==
    /\ Truthy(event.entity_id) /\ event.new_state.present
    /\ NewNormalized(event) \notin IgnoredStates
    /\ OldNormalized(event) # PyStr(NewNormalized(event))
    /\ NewNormalized(event) \in ACTIVE_STATES

\* the handler without its entity_id test
AcceptsWithoutEntityId(event) ==
    /\ event.new_state.present
    /\ NewNormalized(event) \notin IgnoredStates
    /\ event.new_state.attributes.device_class \in RELEVANT_DEVICE_CLASSES
    /\ OldNormalized(event) # PyStr(NewNormalized(event))
    /\ NewNormalized(event) \in ACTIVE_STATES

\* on_binary_sensor_change reaches trigger_cache.append
Accepts(event) ==
    /\ Truthy(event.entity_id) /\ event.new_state.present
    /\ NewNormalized(event) \notin IgnoredStates
    /\ event.new_state.attributes.device_class \in RELEVANT_DEVICE_CLASSES
    /\ OldNormalized(event) # PyStr(NewNormalized(event))
    /\ NewNormalized(event) \in ACTIVE_STATES

on_binary_sensor_change(event) ==
    /\ IF Accepts(event)
       THEN /\ trigger_cache' = DequeAppend(trigger_cache,
                    CacheRecord(clock, event.entity_id,
                                Or(event.new_state.attributes.friendly_name, event.entity_id),
                                event.new_state.attributes.device_class,
                                NewNormalized(event), accepted + 1))
            /\ accepted' = accepted + 1
       ELSE UNCHANGED <<trigger_cache, accepted>>
    /\ UNCHANGED <<lookback_cfg, esphome_devices, clock, alarm_st, services, tasks, spawned,
                   attribution, calls, pushes>>

\* time passes between two callbacks
Tick ==
    /\ clock' = clock + 1
    /\ UNCHANGED <<lookback_cfg, esphome_devices, trigger_cache, accepted, alarm_st,
                   services, tasks, spawned, attribution, calls, pushes, last>>

----------------------------------------------------------------------------
(* Service names *)

RECURSIVE IndexOf(_, _, _)
\* the first position >= i of character c in s, or 0
IndexOf(s, c, i) ==
    IF i > Len(s) THEN 0 ELSE IF s[i] = c THEN i ELSE IndexOf(s, c, i + 1)

RECURSIVE Strip(_)
\* str.strip() for blanks
Strip(s) ==
    IF s = <<>> THEN s
    ELSE IF Head(s) = " " THEN Strip(Tail(s))
    ELSE IF s[Len(s)] = " " THEN Strip(SubSeq(s, 1, Len(s) - 1))
    ELSE s

\* str.replace(a, b) for single characters
Replace(s, a, b) == [i \in DOMAIN s |-> IF s[i] = a THEN b ELSE s[i]]

\* esphome_entity_id.split(".", 1)[-1].strip()
device_slug(esphome_entity_id) ==
    LET dot == IndexOf(esphome_entity_id, ".", 1)
    IN  Strip(IF dot = 0 THEN esphome_entity_id
              ELSE SubSeq(esphome_entity_id, dot + 1, Len(esphome_entity_id)))

svc_state(slug) == slug \o <<"_","s","e","t","_","a","l","a","r","m","_","s","t","a","t","e">>

svc_source(slug) == slug \o <<"_","s","e","t","_","a","l","a","r","m","_","s","o","u","r","c","e">>

svc_panel(slug) ==
    slug \o <<"_","s","e","t","_","a","l","a","r","m","_","p","a","n","e","l","_","n","a","m","e">>

\* a registry that holds every name
AlwaysRegistered(svc) == TRUE

has_service(svc) == svc \in services

\* the first registered candidate; <<>> stands for None (both fail "if service:")
_pick_esphome_service(base) ==
    LET candidates == <<base, Replace(base, "-", "_"), Replace(base, "_", "-")>>
    IN  IF \E k \in 1..3 : has_service(candidates[k])
        THEN candidates[CHOOSE k \in 1..3 :
                 has_service(candidates[k]) /\ \A j \in 1..(k - 1) : ~has_service(candidates[j])]
        ELSE <<>>

\* one hass.services.async_call("esphome", service, {key: ...}, blocking=False)
Call(service, key, state_text, text, task) ==
    [service |-> service, key |-> key, state_text |-> state_text, text |-> text, task |-> task]

\* the has_service test turned round
CallsOnlyUnregistered(service, key, state_text, text, task) ==
    IF has_service(service) THEN <<>> ELSE <<Call(service, key, state_text, text, task)>>

\* _safe_esphome_call: the calls it issues, none when the service is not registered
_safe_esphome_call(service, key, state_text, text, task) ==
    IF ~has_service(service) THEN <<>> ELSE <<Call(service, key, state_text, text, task)>>

----------------------------------------------------------------------------
(* Attribution *)

\* int(entry.data.get("alarm_trigger_lookback_seconds") or 60)
CfgNone == [t |-> "none", n |-> 0]
CfgInt(n) == [t |-> "int", n |-> n]
CfgEmptyStr == [t |-> "str", n |-> 0]

\* the default taken only for a missing setting, not for an empty or zero one
LookbackOnlyIfMissing ==
    IF lookback_cfg.t = "int" THEN lookback_cfg.n
    ELSE IF lookback_cfg.t = "str" THEN 0 ELSE DefaultLookback

lookback_seconds ==
    IF lookback_cfg.t = "int" /\ lookback_cfg.n # 0 THEN lookback_cfg.n ELSE DefaultLookback

NoRecord == CacheRecord(-1, Absent, Absent, Absent, <<>>, 0)

RECURSIVE ScanFromStrict(_, _, _)
\* the scan with < in place of <=
ScanFromStrict(cache, i, now) ==
    IF i = 0 THEN NoRecord
    ELSE IF now - cache[i].ts < lookback_seconds THEN cache[i]
    ELSE ScanFromStrict(cache, i - 1, now)

RECURSIVE ScanForward(_, _, _)
\* the scan without reversed(): the first item in the window from position i up
ScanForward(cache, i, now) ==
    IF i > Len(cache) THEN NoRecord
    ELSE IF now - cache[i].ts <= lookback_seconds THEN cache[i]
    ELSE ScanForward(cache, i + 1, now)

ScanOldestFirst(cache, now) == ScanForward(cache, 1, now)

RECURSIVE ScanFromBelow(_, _, _)
\* the scan that passes over the item at position i and starts below it
ScanFromBelow(cache, i, now) ==
    IF i <= 1 THEN NoRecord
    ELSE IF now - cache[i - 1].ts <= lookback_seconds THEN cache[i - 1]
    ELSE ScanFromBelow(cache, i - 1, now)

RECURSIVE ScanFrom(_, _, _)
\* for item in reversed(trigger_cache) from position i down: the first item in the window
ScanFrom(cache, i, now) ==
    IF i = 0 THEN NoRecord
    ELSE IF now - cache[i].ts <= lookback_seconds THEN cache[i]
    ELSE ScanFrom(cache, i - 1, now)

Scan(cache, now) == ScanFrom(cache, Len(cache), now)

\* the alarm's own source preferred to the inferred sensor
SourceTextAlarmFirst(chosen, new_state) ==
    IF Truthy(new_state.attributes.source) THEN new_state.attributes.source
    ELSE IF chosen # NoRecord THEN chosen.name ELSE "Alarm"

\* chosen["name"] if chosen else new_state.attributes.get("source") or "Alarm"
SourceText(chosen, new_state) ==
    IF chosen # NoRecord THEN chosen.name ELSE Or(new_state.attributes.source, "Alarm")

----------------------------------------------------------------------------
(* Tasks: _handle() of on_alarm_change, and setup's initial push_to_all *)

\* an await between taking now and scanning the cache
SuspensionPointsInScan == {"push_state", "push_source", "push_both", "now"}

\* the statements of a task after which it hands control back to the event loop:
\* the awaited pushes (an awaited push suspends where it awaits async_call)
SuspensionPoints == {"push_state", "push_source", "push_both"}

\* id, n_spawn, n_now, n_scan are history: the task's ordinal, and the value of
\* accepted when the task was created, when it took now, and when it scanned the cache
Task(id, handle, alarm_state, new_state) ==
    [id |-> id, handle |-> handle, alarm_state |-> alarm_state, new_state |-> new_state,
     started |-> FALSE, pc |-> "push_state", dev |-> 1, slot |-> 1,
     now |-> -1, chosen |-> NoRecord, source_text |-> Absent,
     n_spawn |-> accepted, n_now |-> -1, n_scan |-> -1]

\* the arguments of the push_to_all the task is in: state_text is not None in the
\* state push, source_text is not None in the source push; "push_both" is a direct
\* invocation of push_to_all with both
StateTextSet(t) == t.pc \in {"push_state", "push_both"}

\* a state push that carries a source as well
SourceTextSetInStatePush(t) == t.pc \in {"push_state", "push_source", "push_both"}

SourceTextSet(t) == t.pc \in {"push_source", "push_both"}

\* one invocation of push_to_all; at is history: Len(calls) at the invocation
Push(t, at) ==
    [task |-> t.id, handle |-> t.handle,
     state_set |-> StateTextSet(t), state_text |-> IF StateTextSet(t) THEN t.alarm_state ELSE <<>>,
     source_text |-> IF SourceTextSet(t) THEN t.source_text ELSE Absent,
     at |-> at]

\* the friendly_name attribute alone, without st.name
PanelNameFromAttribute ==
    IF alarm_st.present THEN alarm_st.attributes.friendly_name ELSE Absent

\* panel_name of push_to_all, Absent for None
PanelName ==
    IF alarm_st.present THEN Or(alarm_st.attributes.friendly_name, alarm_st.name) ELSE Absent

\* the one element of a set: a value bound as the element of a one-element set is
\* computed once, however often it is used
Once(S) == CHOOSE r \in S : TRUE

\* the base name of the action of the block the task is at
SlotBase(t, slug) ==
    CASE t.slot = 1 -> svc_state(slug) [] t.slot = 2 -> svc_source(slug) [] OTHER -> svc_panel(slug)

\* one of the three blocks of push_to_all's loop body, given the slug and the service
\* that _pick_esphome_service found
SlotCallsFor(t, id, slug, service) ==
    LET wanted == CASE t.slot = 1 -> StateTextSet(t)
                    [] t.slot = 2 -> SourceTextSet(t)
                    [] OTHER -> Truthy(PanelName)
    IN  IF slug = <<>> \/ ~wanted \/ service = <<>> THEN <<>>
        ELSE CASE t.slot = 1 -> _safe_esphome_call(service, "state", t.alarm_state, Absent, id)
               [] t.slot = 2 -> _safe_esphome_call(service, "source", <<>>, t.source_text, id)
               [] OTHER -> _safe_esphome_call(service, "name", <<>>, PanelName, id)

\* the calls of one of the three blocks of push_to_all's loop body for device t.dev
SlotCalls(t, id) ==
    Once({ SlotCallsFor(t, id, slug,
                        Once({ _pick_esphome_service(base) : base \in {SlotBase(t, slug)} })) :
             slug \in {device_slug(esphome_devices[t.dev])} })

\* the attribution run for every alarm state
AfterPushAnyState(t) ==
    IF t.pc = "push_state" /\ t.handle THEN "now" ELSE "done"

\* what follows the awaited push_to_all
AfterPush(t) ==
    IF t.pc = "push_state" /\ t.handle /\ t.alarm_state = Triggered THEN "now" ELSE "done"

\* one statement of the task: the task after it, the calls it issued, whether it
\* entered push_to_all, and whether the task is suspended after it
Exec(t, id) ==
    CASE t.pc \in {"push_state", "push_source", "push_both"} ->
            IF t.dev > Len(esphome_devices)
            THEN [t |-> [t EXCEPT !.pc = AfterPush(t), !.dev = 1, !.slot = 1],
                  out |-> <<>>, enters |-> t.dev = 1 /\ t.slot = 1, yield |-> FALSE]
            ELSE Once({ [t |-> IF t.slot < 3 THEN [t EXCEPT !.slot = t.slot + 1]
                               ELSE [t EXCEPT !.dev = t.dev + 1, !.slot = 1],
                         out |-> made,
                         enters |-> t.dev = 1 /\ t.slot = 1,
                         yield |-> made # <<>> /\ t.pc \in SuspensionPoints] :
                        made \in {SlotCalls(t, id)} })
      [] t.pc = "now" ->
            [t |-> [t EXCEPT !.pc = "scan", !.now = clock, !.n_now = accepted],
             out |-> <<>>, enters |-> FALSE, yield |-> "now" \in SuspensionPoints]
      [] t.pc = "scan" ->
            [t |-> [t EXCEPT !.pc = "source_text", !.chosen = Scan(trigger_cache, t.now),
                             !.n_scan = accepted],
             out |-> <<>>, enters |-> FALSE, yield |-> "scan" \in SuspensionPoints]
      [] t.pc = "source_text" ->
            [t |-> [t EXCEPT !.pc = "push_source",
                             !.source_text = SourceText(t.chosen, t.new_state)],
             out |-> <<>>, enters |-> FALSE, yield |-> "source_text" \in SuspensionPoints]
      [] OTHER -> [t |-> t, out |-> <<>>, enters |-> FALSE, yield |-> TRUE]

\* what a run has done so far: the calls issued and the push_to_all invocations
NoEffects == [calls |-> <<>>, pushes |-> <<>>]

RECURSIVE Run(_, _, _)
\* the task runs from where it is to its next suspension or to its end; each
\* statement's outcome is computed once, as the one element of a set
Run(t, id, out) ==
    LET Effects(c) ==
            [calls |-> out.calls \o c.out,
             pushes |-> IF c.enters
                        THEN Append(out.pushes, Push(t, Len(calls) + Len(out.calls)))
                        ELSE out.pushes]
        Then(c, done) ==
            IF c.yield \/ c.t.pc = "done" THEN [t |-> c.t, out |-> done]
            ELSE Run(c.t, id, done)
    IN  Once({ Then(x[1], x[2]) : x \in { <<c, Effects(c)>> : c \in {Exec(t, id)} } })

\* what an attribution used and found, as history: the task, the cache it scanned,
\* the value of accepted at the task's creation, at its now and at its scan
Attribution(t, cache) ==
    [id |-> t.id, alarm_state |-> t.alarm_state, new_state |-> t.new_state,
     cache |-> cache, now |-> t.now, chosen |-> t.chosen, source_text |-> t.source_text,
     n_spawn |-> t.n_spawn, n_now |-> t.n_now, n_scan |-> t.n_scan]

NoAttribution ==
    [id |-> 0, alarm_state |-> <<>>, new_state |-> NoState,
     cache |-> <<>>, now |-> -1, chosen |-> NoRecord, source_text |-> Absent,
     n_spawn |-> -1, n_now |-> -1, n_scan |-> -1]

\* s without its k-th item
Remove(s, k) == SubSeq(s, 1, k - 1) \o SubSeq(s, k + 1, Len(s))

\* the event loop runs the k-th live task; tasks start in the order of their creation,
\* and a finished task is dropped
TaskStep(k) ==
    /\ k \in DOMAIN tasks
    /\ \A j \in 1..(k - 1) : tasks[j].started
    /\ \E c \in {Run(tasks[k], tasks[k].id, NoEffects)} :
           /\ tasks' = IF c.t.pc = "done" THEN Remove(tasks, k)
                        ELSE [tasks EXCEPT ![k] = [c.t EXCEPT !.started = TRUE]]
           /\ calls' = calls \o c.out.calls
           /\ pushes' = pushes \o c.out.pushes
           /\ attribution' = IF tasks[k].source_text = Absent /\ c.t.source_text # Absent
                              THEN Attribution(c.t, trigger_cache)
                              ELSE attribution
    /\ last' = NoEvent
    /\ UNCHANGED <<lookback_cfg, esphome_devices, trigger_cache, accepted, clock, alarm_st,
                   services, spawned>>

\* the host stores the alarm entity's new state, then notifies on_alarm_change
on_alarm_change(event) ==
    /\ alarm_st' = event.new_state
    /\ tasks' = IF ~event.new_state.present THEN tasks
                ELSE Append(tasks, Task(spawned + 1, TRUE,
                                        _normalize_boolish(event.new_state.state),
                                        event.new_state))
    /\ spawned' = IF event.new_state.present THEN spawned + 1 ELSE spawned
    /\ UNCHANGED <<lookback_cfg, esphome_devices, trigger_cache, accepted, clock,
                   services, calls, pushes, attribution>>

\* the state after async_setup_entry
SetupWith(cfgs, devices, alarm_states, registries) ==
    /\ lookback_cfg \in cfgs
    /\ esphome_devices \in devices
    /\ alarm_st \in alarm_states
    /\ services \in registries
    /\ trigger_cache = <<>>
    /\ accepted = 0
    /\ clock = 0
    /\ tasks = IF alarm_st.present
               THEN <<[Task(1, FALSE, _normalize_boolish(alarm_st.state), alarm_st)
                          EXCEPT !.n_spawn = 0]>>
               ELSE <<>>
    /\ spawned = Len(tasks)
    /\ calls = <<>>
    /\ pushes = <<>>
    /\ attribution = NoAttribution
    /\ last = NoEvent

----------------------------------------------------------------------------
(* Bounds and inputs *)

MaxTime == 2
MaxCached == 2
MaxTasks == 1

On == <<"o","n">>
Off == <<"o","f","f">>

FrontDoor == "binary_sensor.front_door"
BackWindow == "binary_sensor.back_window"
AlarmEntity == "alarm_control_panel.home"

Vibe == <<"e","s","p","h","o","m","e",".","v","i","b","e">>

AllServices(dev) ==
    {svc_state(device_slug(dev)), svc_source(device_slug(dev)), svc_panel(device_slug(dev))}

AlarmState(raw, src) == StateObj(PyStr(raw), Attrs(Absent, "Home Alarm", src), "Home Alarm")

Disarmed == <<"d","i","s","a","r","m","e","d">>

SensorEvents ==
    { Event(FrontDoor, StateObj(PyStr(Off), NoAttrs, Absent),
            StateObj(PyStr(On), Attrs("door", "Front Door", Absent), "Front Door")),
      Event(BackWindow, StateObj(PyStr(Off), NoAttrs, Absent),
            StateObj(PyStr(On), Attrs("window", "Back Window", Absent), "Back Window")),
      Event(FrontDoor, StateObj(PyStr(On), NoAttrs, Absent),
            StateObj(PyStr(Off), Attrs("door", "Front Door", Absent), "Front Door")) }

AlarmEvents ==
    { Event(AlarmEntity, NoState, AlarmState(Triggered, Absent)),
      Event(AlarmEntity, NoState, AlarmState(Triggered, "")),
      Event(AlarmEntity, NoState, AlarmState(<<"T","R","I","G","G","E","R","E","D">>, "Garage")),
      Event(AlarmEntity, NoState, AlarmState(Disarmed, "Garage")),
      Event(AlarmEntity, NoState, NoState) }

StateAndSource(dev) == {svc_state(device_slug(dev)), svc_source(device_slug(dev))}

\* The system with one device: sensor activations, alarm changes and their tasks.
Init ==
    SetupWith({CfgNone, CfgInt(1)}, {<<Vibe>>}, {NoState}, {StateAndSource(Vibe)})

Next ==
    \/ \E ev \in SensorEvents :
          Len(trigger_cache) < MaxCached /\ on_binary_sensor_change(ev) /\ UNCHANGED last
    \/ \E ev \in AlarmEvents :
          spawned < MaxTasks /\ on_alarm_change(ev) /\ UNCHANGED last
    \/ \E k \in DOMAIN tasks : TaskStep(k)
    \/ clock < MaxTime /\ Tick

Spec == Init /\ [][Next]_vars

----------------------------------------------------------------------------
(* The ingestion filter on every shape of sensor notification *)

\* True, False, "ON", "Open", "foo"
RawValues ==
    { PyBool(TRUE), PyBool(FALSE), PyStr(<<"O","N">>), PyStr(<<"O","p","e","n">>),
      PyStr(<<"f","o","o">>) }

IngestOld ==
    {NoState} \cup
    { StateObj(raw, NoAttrs, Absent) :
        raw \in {PyStr(<<"o","p","e","n">>), PyStr(Off)} \cup RawValues }

IngestAttrs ==
    { Attrs("door", "Front Door", Absent), Attrs("window", Absent, Absent),
      Attrs("smoke", "Smoke", Absent), NoAttrs }

IngestNew ==
    {NoState} \cup
    { StateObj(raw, attrs, Absent) :
        raw \in {PyStr(On), PyStr(<<"O","N">>), PyStr(Off),
                 PyStr(<<"u","n","k","n","o","w","n">>), PyBool(TRUE)},
        attrs \in IngestAttrs }

IngestEvents ==
    { Event(eid, old, new) : eid \in {Absent, FrontDoor}, old \in IngestOld, new \in IngestNew }

InitIngest == SetupWith({CfgNone}, {<<Vibe>>}, {NoState}, {StateAndSource(Vibe)})

NextIngest ==
    \E ev \in IngestEvents :
        /\ Len(trigger_cache) < MaxCached
        /\ on_binary_sensor_change(ev)
        /\ last' = SensorNotification(ev)

SpecIngest == InitIngest /\ [][NextIngest]_vars

----------------------------------------------------------------------------
(* The cache at its capacity: filled by sensor notifications alone, then    *)
(* overflowing while time passes and the alarm changes                      *)

MaxOverflow == 2

CacheFull == accepted >= CacheMaxLen

\* one notification that is cached and one that is dropped
CacheEvents ==
    { Event(FrontDoor, StateObj(PyStr(Off), NoAttrs, Absent),
            StateObj(PyStr(On), Attrs("door", "Front Door", Absent), "Front Door")),
      Event(FrontDoor, StateObj(PyStr(On), NoAttrs, Absent),
            StateObj(PyStr(Off), Attrs("door", "Front Door", Absent), "Front Door")) }

CacheAlarmEvents ==
    { Event(AlarmEntity, NoState, AlarmState(Triggered, Absent)),
      Event(AlarmEntity, NoState, AlarmState(Disarmed, Absent)) }

InitCache == SetupWith({CfgNone}, {<<Vibe>>}, {NoState}, {StateAndSource(Vibe)})

NextCache ==
    \/ \E ev \in CacheEvents :
          /\ accepted < CacheMaxLen + MaxOverflow
          /\ on_binary_sensor_change(ev)
          /\ UNCHANGED last
    \/ \E ev \in CacheAlarmEvents :
          CacheFull /\ spawned < MaxTasks /\ on_alarm_change(ev) /\ UNCHANGED last
    \/ \E k \in DOMAIN tasks : TaskStep(k)
    \/ CacheFull /\ clock < MaxTime /\ Tick

SpecCache == InitCache /\ [][NextCache]_vars

----------------------------------------------------------------------------
(* The lookback window under every kind of setting *)

LookbackSettings == {CfgNone, CfgEmptyStr, CfgInt(0), CfgInt(1), CfgInt(2)}

InitLookback == SetupWith(LookbackSettings, {<<Vibe>>}, {NoState}, {StateAndSource(Vibe)})

NextLookback ==
    \/ \E ev \in CacheEvents :
          Len(trigger_cache) < MaxCached /\ on_binary_sensor_change(ev) /\ UNCHANGED last
    \/ \E ev \in CacheAlarmEvents :
          spawned < MaxTasks /\ on_alarm_change(ev) /\ UNCHANGED last
    \/ \E k \in DOMAIN tasks : TaskStep(k)
    \/ clock < MaxTime /\ Tick

SpecLookback == InitLookback /\ [][NextLookback]_vars

----------------------------------------------------------------------------
(* The pushes of overlapping tasks to two devices; every notification is     *)
(* recorded in last                                                         *)

MaxChanges == 2

Hall == <<"e","s","p","h","o","m","e",".","h","a","l","l">>

\* set-state and set-source of both devices, or the second device without set-state
PushRegistries ==
    { StateAndSource(Vibe) \cup StateAndSource(Hall),
      StateAndSource(Vibe) \cup {svc_source(device_slug(Hall))} }

\* a notification without entity id, one without new state, and an activation
PushSensorEvents ==
    { Event(Absent, StateObj(PyStr(Off), NoAttrs, Absent),
            StateObj(PyStr(On), Attrs("door", "Front Door", Absent), "Front Door")),
      Event(FrontDoor, StateObj(PyStr(On), Attrs("door", "Front Door", Absent), "Front Door"),
            NoState),
      Event(FrontDoor, StateObj(PyStr(Off), NoAttrs, Absent),
            StateObj(PyStr(On), Attrs("door", "Front Door", Absent), "Front Door")) }

PushAlarmEvents ==
    { Event(AlarmEntity, NoState, AlarmState(Triggered, Absent)),
      Event(AlarmEntity, NoState, AlarmState(Disarmed, Absent)),
      Event(AlarmEntity, AlarmState(Disarmed, Absent), NoState) }

InitPush ==
    SetupWith({CfgNone}, {<<Vibe, Hall>>}, {NoState, AlarmState(Triggered, Absent)},
              PushRegistries)

NextPush ==
    \/ \E ev \in PushSensorEvents :
          /\ Len(trigger_cache) < MaxCached
          /\ on_binary_sensor_change(ev)
          /\ last' = SensorNotification(ev)
    \/ \E ev \in PushAlarmEvents :
          /\ spawned < MaxChanges
          /\ on_alarm_change(ev)
          /\ last' = AlarmNotification(ev)
    \/ \E k \in DOMAIN tasks : TaskStep(k)

SpecPush == InitPush /\ [][NextPush]_vars

\* the event loop runs every task that is ready
FairSpecPush == SpecPush /\ \A k \in 1..MaxChanges : WF_vars(TaskStep(k))

----------------------------------------------------------------------------
(* The dispatcher invoked with every combination of its arguments, on three  *)
(* devices, while the service registry and the alarm entity change           *)

\* a device whose slug is empty, and one whose slug holds a hyphen
Blank == <<"e","s","p","h","o","m","e","."," ">>

Porch == <<"e","s","p","h","o","m","e",".","p","o","r","c","h","-","2">>

\* the services that come and go while a push is under way: the first device's
\* three, and the set-state name of the empty slug
DispatchPool == AllServices(Vibe) \cup {svc_state(device_slug(Blank))}

\* the third device's services, which stay as they are: none, set-state alone under
\* its underscore name, or set-state and set-panel-name
PorchServices ==
    { {},
      {Replace(svc_state(device_slug(Porch)), "-", "_")},
      {Replace(svc_state(device_slug(Porch)), "-", "_"), svc_panel(device_slug(Porch))} }

\* the host registers or removes a service
RegistryChange ==
    /\ tasks # <<>>
    /\ \E svc \in DispatchPool :
          services' = IF svc \in services THEN services \ {svc} ELSE services \cup {svc}
    /\ last' = NoEvent
    /\ UNCHANGED <<lookback_cfg, esphome_devices, trigger_cache, accepted, clock, alarm_st,
                   tasks, spawned, attribution, calls, pushes>>

\* push_to_all(state_text, source_text) awaited by a task of its own
DirectPush(pc, state_text, source_text) ==
    [Task(1, FALSE, state_text, NoState) EXCEPT !.pc = pc, !.source_text = source_text]

DispatchTasks ==
    { DirectPush("push_state", Triggered, Absent),
      DirectPush("push_source", <<>>, "Front Door"),
      DirectPush("push_both", Triggered, "Front Door") }

\* the alarm entity with a friendly name, with an empty one, with none, or without state
DispatchAlarmStates ==
    { StateObj(PyStr(Disarmed), Attrs(Absent, "Home Alarm", Absent), "Home Alarm"),
      StateObj(PyStr(Disarmed), Attrs(Absent, "", Absent), "home"),
      StateObj(PyStr(Disarmed), NoAttrs, "home"),
      NoState }

\* the alarm entity is removed: the one change of it that starts no further push
DispatchAlarmEvents ==
    { Event(AlarmEntity, st, NoState) : st \in DispatchAlarmStates \ {NoState} }

InitDispatch ==
    /\ lookback_cfg = CfgNone
    /\ esphome_devices = <<Vibe, Blank, Porch>>
    /\ alarm_st \in DispatchAlarmStates
    /\ services \in { a \cup b : a \in SUBSET DispatchPool, b \in PorchServices }
    /\ trigger_cache = <<>>
    /\ accepted = 0
    /\ clock = 0
    /\ tasks \in { <<t>> : t \in DispatchTasks }
    /\ spawned = 1
    /\ calls = <<>>
    /\ pushes = <<>>
    /\ attribution = NoAttribution
    /\ last = NoEvent

NextDispatch ==
    \/ \E k \in DOMAIN tasks : TaskStep(k)
    \/ RegistryChange
    \/ \E ev \in DispatchAlarmEvents :
          /\ tasks # <<>> /\ alarm_st = ev.old_state
          /\ on_alarm_change(ev)
          /\ last' = AlarmNotification(ev)

SpecDispatch == InitDispatch /\ [][NextDispatch]_vars

----------------------------------------------------------------------------
(* Properties *)

\* C1: the trigger cache holds at most CacheMaxLen (300) records, and once more than
\* that many records were accepted it holds exactly the CacheMaxLen most recently
\* accepted ones in acceptance order, the oldest having been evicted first.
CacheHoldsMostRecent ==
    /\ Len(trigger_cache) <= CacheMaxLen
    /\ Len(trigger_cache) = IF accepted > CacheMaxLen THEN CacheMaxLen ELSE accepted
    /\ \A i \in DOMAIN trigger_cache :
          trigger_cache[i].n = accepted - Len(trigger_cache) + i

CacheOverflowed ==
    /\ accepted = CacheMaxLen + 2
    /\ Len(trigger_cache) = CacheMaxLen
    /\ trigger_cache[1].n = 3
    /\ spawned > 0

\* the records of the attribution's cache that are within the lookback window
InWindow(a) == {i \in DOMAIN a.cache : a.now - a.cache[i].ts <= lookback_seconds}

Newest(a) == CHOOSE i \in InWindow(a) : \A j \in InWindow(a) : j <= i

SourceCallsOf(id) == {i \in DOMAIN calls : calls[i].key = "source" /\ calls[i].task = id}

\* C2: when a triggered alarm is attributed and some cached record has
\* now - ts <= lookback, the record chosen is the most recently activated such
\* record and the source pushed is its display name; no earlier record in the
\* window wins over it.
MostRecentInWindowWins ==
    (attribution.id # 0 /\ InWindow(attribution) # {}) =>
        LET a == attribution
            m == Newest(a)
        IN  /\ a.alarm_state = Triggered
            /\ a.chosen = a.cache[m]
            /\ a.source_text = a.cache[m].name
            /\ \A j \in InWindow(a) :
                  a.cache[j].ts <= a.chosen.ts /\ a.cache[j].n <= a.chosen.n
            /\ \A i \in SourceCallsOf(a.id) : calls[i].text = a.cache[m].name

LaterOfTwoReported ==
    /\ attribution.id # 0
    /\ Len(attribution.cache) = 2
    /\ InWindow(attribution) = {1, 2}
    /\ attribution.cache[1].name = "Front Door"
    /\ attribution.cache[2].name = "Back Window"
    /\ attribution.cache[1].ts < attribution.cache[2].ts
    /\ attribution.source_text = "Back Window"
    /\ \E i \in SourceCallsOf(attribution.id) : calls[i].text = "Back Window"

\* C3: the attribution never chooses a record whose age now - ts exceeds the
\* lookback window; a record whose age equals the window is eligible; with an empty
\* cache or only older records no record is chosen and the fallback is used.
NeverOlderThanWindow ==
    attribution.id # 0 =>
        LET a == attribution
        IN  /\ a.chosen # NoRecord =>
                  /\ \E i \in DOMAIN a.cache : a.cache[i] = a.chosen
                  /\ a.now - a.chosen.ts <= lookback_seconds
            /\ (\E i \in DOMAIN a.cache : a.now - a.cache[i].ts = lookback_seconds)
                  => a.chosen # NoRecord
            /\ (\A i \in DOMAIN a.cache : a.now - a.cache[i].ts > lookback_seconds)
                  => /\ a.chosen = NoRecord
                     /\ a.source_text \in {a.new_state.attributes.source, "Alarm"}

TooOldFallsThrough ==
    /\ attribution.id # 0
    /\ attribution.cache # <<>>
    /\ \A i \in DOMAIN attribution.cache :
          attribution.now - attribution.cache[i].ts > lookback_seconds
    /\ attribution.chosen = NoRecord
    /\ attribution.source_text = "Garage"

\* C4: the source of a triggered alarm follows three tiers in this order: the name of
\* the matched cached record if one qualifies, else the alarm's own source attribute
\* if present and non-empty, else "Alarm"; a record is chosen exactly when one
\* qualifies, so the result is either a chosen record or a fallback, never both.
ThreeTierPrecedence ==
    attribution.id # 0 =>
        LET a == attribution
            src == a.new_state.attributes.source
        IN  /\ (a.chosen # NoRecord) <=> (InWindow(a) # {})
            /\ InWindow(a) # {} => a.source_text = a.cache[Newest(a)].name
            /\ (InWindow(a) = {} /\ src # Absent /\ src # "") => a.source_text = src
            /\ (InWindow(a) = {} /\ (src = Absent \/ src = "")) => a.source_text = "Alarm"
            /\ \A i \in SourceCallsOf(a.id) : calls[i].text = a.source_text

SensorBeatsAlarmSource ==
    /\ attribution.id # 0
    /\ attribution.new_state.attributes.source = "Garage"
    /\ InWindow(attribution) # {}
    /\ attribution.chosen # NoRecord
    /\ attribution.source_text = attribution.chosen.name
    /\ attribution.source_text # "Garage"

EqualIgnoringCase(s, t) ==
    Len(s) = Len(t) /\ \A i \in DOMAIN s : LowerChar(s[i]) = LowerChar(t[i])

IsTriggeredChange(t) ==
    t.handle /\ t.new_state.state.t = "str" /\ EqualIgnoringCase(t.new_state.state.s, Triggered)

\* the k-th task ends with this step
Finishes(k) == \A j \in DOMAIN tasks' : tasks'[j].id # tasks[k].id

\* C5: only an alarm change whose normalized new state is "triggered" is attributed
\* and has its source pushed: a set-source call is only ever issued by the task of
\* such a change, and the task of every "triggered" change, in any letter case of the
\* raw state, has made its attribution when it ends.
OnlyTriggeredIsAttributed ==
    [][ /\ \A i \in DOMAIN calls' :
              (i > Len(calls) /\ calls'[i].key = "source") =>
                  \E k \in DOMAIN tasks :
                      tasks[k].id = calls'[i].task /\ IsTriggeredChange(tasks[k])
        /\ attribution' # attribution =>
              \E k \in DOMAIN tasks :
                  tasks[k].id = attribution'.id /\ IsTriggeredChange(tasks[k])
        /\ \A k \in DOMAIN tasks :
              (Finishes(k) /\ IsTriggeredChange(tasks[k])) =>
                  (tasks[k].source_text # Absent \/ attribution'.id = tasks[k].id)
      ]_vars

UpperCaseTriggeredAttributed ==
    /\ attribution.id # 0
    /\ attribution.new_state.state = PyStr(<<"T","R","I","G","G","E","R","E","D">>)
    /\ SourceCallsOf(attribution.id) # {}
    /\ tasks = <<>>

SameNormalized(event) ==
    /\ event.old_state.present /\ event.new_state.present
    /\ _normalize_boolish(event.old_state.state) = _normalize_boolish(event.new_state.state)

\* C6: a sensor notification whose old normalized state equals its new normalized
\* state never produces a cache entry, whatever the device class and the value.
RepeatNeverCached ==
    [][ (last'.kind = "sensor" /\ SameNormalized(last'.data))
            => trigger_cache' = trigger_cache ]_vars

CaseVariantRepeatDropped ==
    /\ last.kind = "sensor"
    /\ last.data.entity_id = FrontDoor
    /\ last.data.old_state.state = PyStr(<<"O","N">>)
    /\ last.data.new_state.state = PyStr(On)
    /\ last.data.new_state.attributes.device_class = "door"
    /\ Len(trigger_cache) = 1

\* the ingestion conditions as the claim C7 words them: old and new state present
ClaimedConditions(event) ==
    /\ Truthy(event.entity_id) /\ event.new_state.present /\ event.old_state.present
    /\ event.new_state.attributes.device_class \in RELEVANT_DEVICE_CLASSES
    /\ _normalize_boolish(event.old_state.state) # _normalize_boolish(event.new_state.state)
    /\ _normalize_boolish(event.new_state.state) \in ACTIVE_STATES

\* the ingestion conditions with a missing old state counted as a change
IngestionConditions(event) ==
    /\ Truthy(event.entity_id) /\ event.new_state.present
    /\ event.new_state.attributes.device_class \in RELEVANT_DEVICE_CLASSES
    /\ event.old_state.present =>
          _normalize_boolish(event.old_state.state) # _normalize_boolish(event.new_state.state)
    /\ _normalize_boolish(event.new_state.state) \in ACTIVE_STATES

\* C7 as claimed: a notification is cached only if entity id, old and new state are
\* present, the class is allowed, old and new normalized states differ and the new
\* one is active; a notification whose old state is missing leaves the cache unchanged.
CachedOnlyWithOldState ==
    [][ trigger_cache' # trigger_cache => ClaimedConditions(last'.data) ]_vars

\* C7 amended: a notification is cached only if entity id and new state are present,
\* the class is allowed, the new normalized state is active and the old normalized
\* state differs from it, a missing old state counting as different; a notification
\* violating any of these leaves the cache unchanged, and one whose old state is
\* missing and that meets the others is cached.
CachedOnlyIfAllConditions ==
    [][ /\ trigger_cache' # trigger_cache => IngestionConditions(last'.data)
        /\ (last'.kind = "sensor" /\ ~IngestionConditions(last'.data))
              => trigger_cache' = trigger_cache
        /\ (/\ last'.kind = "sensor"
            /\ ~last'.data.old_state.present
            /\ IngestionConditions(last'.data))
              => /\ trigger_cache' # trigger_cache
                 /\ trigger_cache'[Len(trigger_cache')].n = accepted + 1
                 /\ trigger_cache'[Len(trigger_cache')].entity_id = last'.data.entity_id
      ]_vars

FirstReportCached ==
    /\ last.kind = "sensor"
    /\ ~last.data.old_state.present
    /\ IngestionConditions(last.data)
    /\ trigger_cache # <<>>
    /\ trigger_cache[Len(trigger_cache)].n = accepted
    /\ trigger_cache[Len(trigger_cache)].entity_id = last.data.entity_id

\* C8: every cached record comes from a change from an inactive value to an active
\* one: no record is created for a change between two distinct active values.
OnlyInactiveToActiveCached ==
    [][ trigger_cache' # trigger_cache =>
            ~(/\ last'.data.old_state.present
              /\ _normalize_boolish(last'.data.old_state.state) \in ACTIVE_STATES) ]_vars

\* C9: a record chosen as the source of an alarm trigger was appended to the cache
\* before the alarm notification was handled.
ChosenPrecedesAlarmChange ==
    attribution.chosen # NoRecord => attribution.chosen.n <= attribution.n_spawn

\* C10: the attribution reads the cache without suspension: the cache is the same
\* when now is taken, when the scan runs and when the record is chosen, and no task
\* is ever suspended between these statements.
ReadIsNotTorn ==
    /\ \A k \in DOMAIN tasks : tasks[k].pc \notin {"now", "scan", "source_text"}
    /\ attribution.id # 0 =>
          /\ attribution.n_now = attribution.n_scan
          /\ attribution.n_scan =
                IF attribution.cache = <<>> THEN 0
                ELSE attribution.cache[Len(attribution.cache)].n

ReadBetweenAppends ==
    /\ attribution.id # 0
    /\ attribution.n_spawn < attribution.n_now
    /\ attribution.n_scan < accepted
    /\ \E k \in DOMAIN tasks : tasks[k].id = attribution.id

PushesOf(id) == {i \in DOMAIN pushes : pushes[i].task = id}

StateCallsOf(id) == {i \in DOMAIN calls : calls[i].key = "state" /\ calls[i].task = id}

Live(id) == \E k \in DOMAIN tasks : tasks[k].id = id

\* the devices for which a set-state action is registered
StateDevices ==
    {d \in DOMAIN esphome_devices :
        _pick_esphome_service(svc_state(device_slug(esphome_devices[d]))) # <<>>}

SourceDevices ==
    {d \in DOMAIN esphome_devices :
        _pick_esphome_service(svc_source(device_slug(esphome_devices[d]))) # <<>>}

\* C11: the task of every alarm state change invokes the dispatcher exactly once with
\* the state text set and no source and, when the state is "triggered", exactly once
\* more with the source text set and no state; the state push has reached every
\* target device before the source push is invoked (the source being resolved right
\* before it), and every source call comes after it.
DispatcherOncePerText ==
    \A id \in 1..spawned :
        LET P == PushesOf(id)
            S == {i \in P : pushes[i].state_set}
            R == {i \in P : ~pushes[i].state_set}
        IN  (\A i \in P : pushes[i].handle) =>
            /\ Cardinality(S) <= 1 /\ Cardinality(R) <= 1
            /\ \A i \in S : pushes[i].source_text = Absent
            /\ \A i \in R :
                  /\ pushes[i].source_text # Absent
                  /\ \E j \in S : j < i /\ pushes[j].state_text = Triggered
                  /\ \A c \in StateCallsOf(id) : c <= pushes[i].at
                  /\ Cardinality(StateCallsOf(id)) = Cardinality(StateDevices)
                  /\ \A c \in SourceCallsOf(id) : c > pushes[i].at
            /\ R = {} => SourceCallsOf(id) = {}
            /\ (~Live(id)) =>
                  /\ Cardinality(S) = 1
                  /\ \A j \in S : (pushes[j].state_text = Triggered) <=> (Cardinality(R) = 1)

TwoPushesOfTriggered ==
    \E id \in 1..spawned :
        /\ ~Live(id)
        /\ Cardinality(PushesOf(id)) = 2
        /\ \A i \in PushesOf(id) : pushes[i].handle
        /\ Cardinality(StateCallsOf(id)) = 2
        /\ Cardinality(SourceCallsOf(id)) = 2
        /\ tasks # <<>>

\* the names _pick_esphome_service tries for a base name
Candidates(base) == {base, Replace(base, "-", "_"), Replace(base, "_", "-")}

\* the base name of action a (1 state, 2 source, 3 panel name) of device d
BaseName(d, a) ==
    LET slug == device_slug(esphome_devices[d])
    IN  CASE a = 1 -> svc_state(slug) [] a = 2 -> svc_source(slug) [] OTHER -> svc_panel(slug)

KeyOf(a) == CASE a = 1 -> "state" [] a = 2 -> "source" [] OTHER -> "name"

\* the push of task t wants action a of device d and the registry holds a name for it
Due(t, d, a) ==
    /\ device_slug(esphome_devices[d]) # <<>>
    /\ CASE a = 1 -> StateTextSet(t)
          [] a = 2 -> SourceTextSet(t)
          [] OTHER -> alarm_st.present /\
                      (Truthy(alarm_st.attributes.friendly_name) \/ Truthy(alarm_st.name))
    /\ Candidates(BaseName(d, a)) \cap services # {}

\* the actions due at or after the place the task's push has reached, as 3 * (d - 1) + a
DueAhead(t) ==
    { 3 * (d - 1) + a : <<d, a>> \in
        { x \in (DOMAIN esphome_devices) \X (1..3) :
            /\ 3 * (x[1] - 1) + x[2] >= 3 * (t.dev - 1) + t.slot
            /\ Due(t, x[1], x[2]) } }

\* the calls task id made to a service of device d
DeviceCallsOf(id, d) ==
    {i \in DOMAIN calls :
        /\ calls[i].task = id
        /\ \E a \in 1..3 : calls[i].service \in Candidates(BaseName(d, a))}

\* a device none of whose service names comes or goes, with set-state alone registered
OnlyStateRegistered(d) ==
    /\ device_slug(esphome_devices[d]) # <<>>
    /\ \A a \in 1..3 : Candidates(BaseName(d, a)) \cap DispatchPool = {}
    /\ Candidates(BaseName(d, 1)) \cap services # {}
    /\ \A a \in 2..3 : Candidates(BaseName(d, a)) \cap services = {}

\* a finished push with both texts set has invoked exactly one remote action,
\* set-state, of a device with only its set-state action registered
OneCallWhereOnlyStateRegistered ==
    \A i \in DOMAIN pushes :
        (pushes[i].state_set /\ pushes[i].source_text # Absent /\ ~Live(pushes[i].task)) =>
            \A d \in DOMAIN esphome_devices :
                OnlyStateRegistered(d) =>
                    /\ Cardinality(DeviceCallsOf(pushes[i].task, d)) = 1
                    /\ \A c \in DeviceCallsOf(pushes[i].task, d) : calls[c].key = "state"

\* C12: every remote action the dispatcher invokes is registered when it is invoked;
\* an action that is not registered is skipped, and the push goes on with the next
\* action that is due, of this device or of a later one, and ends when none is left;
\* in particular a push with both texts set invokes exactly one remote action of a
\* device with only its set-state action registered.
SkipsWhatIsNotRegistered ==
    /\ [][ tasks' # tasks =>
              LET t == tasks[1]
                  ahead == DueAhead(t)
              IN  /\ \A i \in DOMAIN calls' :
                        i > Len(calls) => calls'[i].service \in services
                  /\ IF ahead = {}
                     THEN calls' = calls /\ tasks' = <<>>
                     ELSE LET p == CHOOSE q \in ahead : \A r \in ahead : q <= r
                              d == ((p - 1) \div 3) + 1
                              a == p - 3 * (d - 1)
                          IN  /\ Len(calls') = Len(calls) + 1
                              /\ calls'[Len(calls')].key = KeyOf(a)
                              /\ calls'[Len(calls')].service \in Candidates(BaseName(d, a))
                              /\ calls'[Len(calls')].task = t.id
          ]_vars
    /\ []OneCallWhereOnlyStateRegistered

StateSkippedSourceSent ==
    \E i \in DOMAIN pushes :
        /\ pushes[i].state_set /\ pushes[i].source_text # Absent /\ ~Live(pushes[i].task)
        /\ OnlyStateRegistered(3)
        /\ Cardinality(DeviceCallsOf(pushes[i].task, 3)) = 1
        /\ \E c \in DeviceCallsOf(pushes[i].task, 1) : calls[c].key = "source"
        /\ \A c \in DeviceCallsOf(pushes[i].task, 1) : calls[c].key # "state"
        /\ svc_state(device_slug(Blank)) \in services

NewCalls == {i \in DOMAIN calls' : i > Len(calls)}

\* C13 as claimed: set-panel-name is invoked only with the alarm entity's current
\* friendly_name attribute as payload, and not at all when that attribute is absent
\* or empty.
PanelNameOnlyFromFriendlyName ==
    [][ \A i \in NewCalls :
            calls'[i].key = "name" =>
                /\ alarm_st.present
                /\ Truthy(alarm_st.attributes.friendly_name)
                /\ calls'[i].text = alarm_st.attributes.friendly_name ]_vars

\* C13 amended: set-panel-name is invoked only with the alarm entity's current display
\* name as payload, which is its friendly_name attribute when that is present and
\* not empty and the name of its state otherwise; where the action is registered and
\* that name is not empty it is invoked, and when the alarm entity has no state (or
\* no name at all) it is not, even when the action is registered.
PanelNameIsCurrentDisplayName ==
    [][ LET shown == IF ~alarm_st.present THEN Absent
                     ELSE IF Truthy(alarm_st.attributes.friendly_name)
                          THEN alarm_st.attributes.friendly_name
                          ELSE alarm_st.name
        IN  /\ \A i \in NewCalls :
                  calls'[i].key = "name" => Truthy(shown) /\ calls'[i].text = shown
            /\ (tasks' # tasks /\ DueAhead(tasks[1]) # {}) =>
                  LET ahead == DueAhead(tasks[1])
                      p == CHOOSE q \in ahead : \A r \in ahead : q <= r
                  IN  p % 3 = 0 =>
                          /\ NewCalls # {}
                          /\ \A i \in NewCalls :
                                calls'[i].key = "name" /\ calls'[i].text = shown
      ]_vars

NameOfStateShown ==
    /\ alarm_st.present
    /\ ~Truthy(alarm_st.attributes.friendly_name)
    /\ \E i \in DOMAIN calls : calls[i].key = "name" /\ calls[i].text = alarm_st.name

\* task id has ended, having called set-state with its state on every device that
\* has the action and, if it handled a change to "triggered", set-source on every
\* device that has that action
Served(id) ==
    /\ ~Live(id)
    /\ \E i \in PushesOf(id) :
          /\ pushes[i].state_set
          /\ \A d \in StateDevices :
                \E c \in StateCallsOf(id) :
                    /\ calls[c].service \in Candidates(BaseName(d, 1))
                    /\ calls[c].state_text = pushes[i].state_text
          /\ (pushes[i].handle /\ pushes[i].state_text = Triggered) =>
                \A d \in SourceDevices :
                    \E c \in SourceCallsOf(id) :
                        /\ calls[c].service \in Candidates(BaseName(d, 2))
                        /\ Truthy(calls[c].text)

\* a task pushes the state it was created with
PushesItsState ==
    \A k \in DOMAIN tasks :
        \A i \in PushesOf(tasks[k].id) :
            pushes[i].state_set => pushes[i].state_text = tasks[k].alarm_state

\* C14: on_alarm_change, given a new state, only creates a task that holds the
\* normalized state, without issuing or awaiting any push; under a fair event loop
\* every such task comes to its end, having called set-state with that state on every
\* device whose set-state action is registered and, for "triggered", set-source on
\* every device whose set-source action is registered.
EveryChangeIsPushed ==
    /\ [][ (last'.kind = "alarm" /\ last'.data.new_state.present) =>
              /\ calls' = calls /\ pushes' = pushes
              /\ spawned' = spawned + 1
              /\ tasks' = Append(tasks, tasks'[Len(tasks')])
              /\ tasks'[Len(tasks')].id = spawned'
              /\ ~tasks'[Len(tasks')].started
              /\ tasks'[Len(tasks')].alarm_state =
                     _normalize_boolish(last'.data.new_state.state) ]_vars
    /\ []PushesItsState
    /\ \A id \in 1..MaxChanges : (spawned >= id) ~> Served(id)

TriggeredServedWhereRegistered ==
    /\ spawned = 2 /\ Served(2)
    /\ StateDevices = {1} /\ SourceDevices = {1, 2}
    /\ Cardinality(StateCallsOf(2)) = 1
    /\ Cardinality(SourceCallsOf(2)) = 2
    /\ \A i \in PushesOf(2) : pushes[i].handle

\* C15: a notification with missing fields has no effect: a sensor notification
\* without entity id or without new state leaves the cache as it is and causes no
\* push, and an alarm notification without new state creates no task and causes no
\* call.
MissingFieldsNoEffect ==
    [][ /\ (/\ last'.kind = "sensor"
            /\ (~Truthy(last'.data.entity_id) \/ ~last'.data.new_state.present))
              => /\ trigger_cache' = trigger_cache /\ accepted' = accepted
                 /\ tasks' = tasks /\ spawned' = spawned
                 /\ calls' = calls /\ pushes' = pushes
        /\ (last'.kind = "alarm" /\ ~last'.data.new_state.present)
              => /\ tasks' = tasks /\ spawned' = spawned
                 /\ calls' = calls /\ pushes' = pushes
                 /\ trigger_cache' = trigger_cache /\ accepted' = accepted
      ]_vars

AlarmWithoutNewStateIgnored ==
    /\ last.kind = "alarm"
    /\ ~last.data.new_state.present
    /\ tasks # <<>>
    /\ spawned = 1
    /\ trigger_cache # <<>>

\* C16: the trigger cache changes only when a sensor notification is appended: a step
\* that handles an alarm change, runs a task (state push, attribution, source push) or
\* issues a call leaves it unchanged; an append keeps every record it does not evict
\* as it was, evicts at most the oldest, and adds the new record at the end; so the
\* cache always is a contiguous suffix of the accepted activations in their order.
CacheChangedOnlyByAppend ==
    /\ [][ /\ <<tasks, spawned, alarm_st, calls, pushes, attribution>>' #
                 <<tasks, spawned, alarm_st, calls, pushes, attribution>>
                 => (trigger_cache' = trigger_cache /\ accepted' = accepted)
           /\ trigger_cache' # trigger_cache =>
                 LET kept == IF Len(trigger_cache) >= CacheMaxLen
                             THEN Tail(trigger_cache) ELSE trigger_cache
                 IN  /\ accepted' = accepted + 1
                     /\ Len(trigger_cache') = Len(kept) + 1
                     /\ SubSeq(trigger_cache', 1, Len(kept)) = kept
                     /\ trigger_cache'[Len(trigger_cache')].n = accepted + 1
                     /\ trigger_cache'[Len(trigger_cache')].ts = clock
         ]_vars
    /\ [](\A i \in DOMAIN trigger_cache :
              trigger_cache[i].n = accepted - Len(trigger_cache) + i)

CacheKeptThroughAttribution ==
    /\ attribution.id # 0
    /\ attribution.n_scan = CacheMaxLen
    /\ accepted = CacheMaxLen + 1
    /\ clock > 0
    /\ trigger_cache[CacheMaxLen].ts > 0
    /\ trigger_cache[1] = attribution.cache[2]
    /\ calls # <<>>

\* the raw values of the notification handled last
RawSeen ==
    {st.state : st \in {x \in {last.data.old_state, last.data.new_state} : x.present}}

IsLowerCase(s) == \A i \in DOMAIN s : \A j \in DOMAIN UpperChars : s[i] # UpperChars[j]

\* C17: _normalize_boolish is idempotent and ignores letter case: for every raw value
\* x among True, False, "ON", "Open", "foo" and every raw value a notification
\* carries, normalizing the result again gives the same text; True gives "true" and
\* False gives "false"; two strings that differ only in letter case give the same
\* text, which holds no upper-case letter; so does every cached state.
NormalizeIdempotent ==
    /\ \A x \in RawValues \cup RawSeen :
          /\ _normalize_boolish(PyStr(_normalize_boolish(x))) = _normalize_boolish(x)
          /\ x = PyBool(TRUE) => _normalize_boolish(x) = <<"t","r","u","e">>
          /\ x = PyBool(FALSE) => _normalize_boolish(x) = <<"f","a","l","s","e">>
          /\ IsLowerCase(_normalize_boolish(x))
          /\ \A y \in RawValues \cup RawSeen :
                (x.t = "str" /\ y.t = "str" /\ EqualIgnoringCase(x.s, y.s))
                    => _normalize_boolish(x) = _normalize_boolish(y)
    /\ \A i \in DOMAIN trigger_cache :
          /\ _normalize_boolish(PyStr(trigger_cache[i].state)) = trigger_cache[i].state
          /\ IsLowerCase(trigger_cache[i].state)

MixedCaseNormalized ==
    /\ last.kind = "sensor"
    /\ last.data.old_state.state = PyStr(<<"O","p","e","n">>)
    /\ last.data.new_state.state = PyStr(<<"O","N">>)
    /\ trigger_cache # <<>>
    /\ trigger_cache[Len(trigger_cache)].n = accepted
    /\ trigger_cache[Len(trigger_cache)].state = On
    /\ Len(trigger_cache) = 2

\* the window the setting stands for: itself if a non-zero integer, else 60
Window == IF lookback_cfg.t = "int" /\ lookback_cfg.n # 0 THEN lookback_cfg.n ELSE 60

\* C18: the lookback window is the configured alarm_trigger_lookback_seconds when
\* that is a non-zero integer and 60 seconds when the setting is absent, empty or
\* zero, so a setting of 0 never gives a window of length zero; an attribution
\* chooses a record exactly when one is at most that old.
LookbackDefaultsTo60 ==
    /\ (lookback_cfg.t = "int" /\ lookback_cfg.n # 0) => lookback_seconds = lookback_cfg.n
    /\ lookback_cfg \in {CfgNone, CfgEmptyStr, CfgInt(0)} => lookback_seconds = 60
    /\ lookback_seconds # 0
    /\ attribution.id # 0 =>
          ((attribution.chosen # NoRecord) <=>
              \E i \in DOMAIN attribution.cache :
                  attribution.now - attribution.cache[i].ts <= Window)

ZeroSettingStillLooksBack ==
    /\ lookback_cfg = CfgInt(0)
    /\ attribution.id # 0
    /\ attribution.chosen # NoRecord
    /\ attribution.now - attribution.chosen.ts = 2
    /\ attribution.source_text = "Front Door"

\* C19: the clock never going back, the cached records are in the order of their
\* timestamps, so an attribution chooses the last record of the cache it scans or
\* none: none if that record is older than the window, and never another record.
ChosenIsNewestOrNone ==
    /\ \A i, j \in DOMAIN trigger_cache : i < j => trigger_cache[i].ts <= trigger_cache[j].ts
    /\ \A i \in DOMAIN trigger_cache : trigger_cache[i].ts <= clock
    /\ attribution.id # 0 =>
          LET a == attribution
              len == Len(a.cache)
          IN  /\ \A i, j \in DOMAIN a.cache : i < j => a.cache[i].ts <= a.cache[j].ts
              /\ a.chosen # NoRecord => (len > 0 /\ a.chosen = a.cache[len])
              /\ (len > 0 /\ a.now - a.cache[len].ts > lookback_seconds) => a.chosen = NoRecord
              /\ (len > 0 /\ a.now - a.cache[len].ts <= lookback_seconds)
                    => a.chosen = a.cache[len]

ScanStopsAtNewest ==
    /\ attribution.id # 0
    /\ Len(attribution.cache) = 2
    /\ attribution.cache[1].ts < attribution.cache[2].ts
    /\ attribution.now - attribution.cache[1].ts > lookback_seconds
    /\ attribution.chosen = attribution.cache[2]
    /\ attribution.chosen.name = "Back Window"

\* C20: tasks of successive alarm changes may overlap where they are suspended, yet
\* for every device the set-state calls are issued in the order in which the changes
\* were observed, so the last state a device was sent is that of the latest change
\* pushed to it, and no set-source call of an earlier change comes after the
\* set-state call of a later change.
StatePushesInObservedOrder ==
    \A i, j \in DOMAIN calls :
        /\ (/\ i < j
            /\ calls[i].key = "state" /\ calls[j].key = "state"
            /\ calls[i].service = calls[j].service)
              => calls[i].task <= calls[j].task
        /\ (/\ calls[i].key = "state" /\ calls[j].key = "source"
            /\ calls[j].task < calls[i].task)
              => j < i

====
